---- MODULE Spec2Model ----
(***************************************************************************)
(* Model of options/base_options.py (class BaseOptions): the two-phase,    *)
(* self-extending option schema, the resolved configuration and its        *)
(* print / save / load operations.                                         *)
(***************************************************************************)
EXTENDS Integers, Sequences, FiniteSets, TLC

\* ------------------------------------------------------------------------
\* Bounds of the model
\* ------------------------------------------------------------------------
\* how many times parse() may be called on one BaseOptions object
MaxParseCalls == 2
\* how many times load() may be called on one BaseOptions object
MaxLoadCalls == 2

\* ------------------------------------------------------------------------
\* Python values held by an argparse Namespace.  Every value is a record of
\* the same shape so that values of different Python types can be compared.
\* ------------------------------------------------------------------------
PyNone == [t |-> "NoneType", s |-> "", n |-> 0]

PyStr(x) == [t |-> "str", s |-> x, n |-> 0]

PyInt(i) == [t |-> "int", s |-> "", n |-> i]

PyBool(b) == [t |-> "bool", s |-> "", n |-> IF b THEN 1 ELSE 0]

PyInf == [t |-> "float", s |-> "inf", n |-> 0]

\* A command-line token: its text, and the integer int(text) yields when the
\* text is a decimal numeral.
Tok(text) == [s |-> text, isInt |-> FALSE, n |-> 0]

NumTok(text, i) == [s |-> text, isInt |-> TRUE, n |-> i]

\* ------------------------------------------------------------------------
\* The option schema: dest name -> declared flag
\* ------------------------------------------------------------------------
Flag(default, type, choices, required) ==
    [default |-> default, type |-> type, choices |-> choices, required |-> required]

StoreTrue == Flag(PyBool(FALSE), "store_true", {}, FALSE)

\* the flags declared by BaseOptions.__init__
BaseSchema ==
    [ config_file          |-> Flag(PyNone, "str", {}, FALSE),
      name                 |-> Flag(PyStr("my_experiment"), "str", {}, FALSE),
      verbose              |-> StoreTrue,
      display_winsize      |-> Flag(PyInt(256), "int", {}, FALSE),
      model                |-> Flag(PyNone, "str", {"warp", "texture", "pix2pix"}, TRUE),
      checkpoints_dir      |-> Flag(PyStr("./checkpoints"), "str", {}, FALSE),
      from_epoch           |-> Flag(PyStr("latest"), "str", {}, FALSE),
      dataroot             |-> Flag(PyNone, "str", {}, TRUE),
      dataset              |-> Flag(PyNone, "str", {}, FALSE),
      dataset_mode         |-> Flag(PyStr("image"), "str", {"image", "video"}, FALSE),
      cloth_representation |-> Flag(PyStr("labels"), "str", {"rgb", "labels"}, FALSE),
      body_representation  |-> Flag(PyStr("rgb"), "str", {"rgb", "labels"}, FALSE),
      cloth_channels       |-> Flag(PyInt(19), "int", {}, FALSE),
      body_channels        |-> Flag(PyInt(12), "int", {}, FALSE),
      texture_channels     |-> Flag(PyInt(3), "int", {}, FALSE),
      pad                  |-> StoreTrue,
      load_size            |-> Flag(PyInt(128), "int", {}, FALSE),
      crop_size            |-> Flag(PyInt(128), "int", {}, FALSE),
      crop_bounds          |-> Flag(PyNone, "str", {}, FALSE),
      max_dataset_size     |-> Flag(PyInf, "int", {}, FALSE),
      batch_size           |-> Flag(PyInt(4), "int", {}, FALSE),
      shuffle_data         |-> StoreTrue,
      num_workers          |-> Flag(PyInt(4), "int", {}, FALSE),
      gpu_id               |-> Flag(PyInt(0), "int", {}, FALSE) ]

\* ------------------------------------------------------------------------
\* argparse
\* ------------------------------------------------------------------------
\* the value a recognised flag stores: the token converted by the flag's type
Convert(flag, tok) ==
    CASE flag.type = "store_true" -> PyBool(TRUE)
      [] flag.type = "int"        -> PyInt(tok.n)
      [] OTHER                    -> PyStr(tok.s)

\* mutant of parse_known_args: the choices of a flag are not enforced
parse_known_args_any_choice(schema, args) ==
    LET known   == DOMAIN args \cap DOMAIN schema
        badType == {k \in known : schema[k].type = "int" /\ ~args[k].isInt}
        missing == {k \in DOMAIN schema : schema[k].required /\ k \notin DOMAIN args}
    IN  [ err    |-> IF badType # {} THEN "invalid value"
                     ELSE IF missing # {} THEN "required"
                     ELSE "none",
          ns     |-> [k \in DOMAIN schema |->
                        IF k \in known THEN Convert(schema[k], args[k])
                        ELSE schema[k].default],
          extras |-> DOMAIN args \ DOMAIN schema ]

\* ArgumentParser.parse_known_args: unrecognised flags are collected in
\* extras, never an error; a type, choices or required violation is an
\* error (argparse exits the process).
parse_known_args(schema, args) ==
    LET known     == DOMAIN args \cap DOMAIN schema
        badType   == {k \in known : schema[k].type = "int" /\ ~args[k].isInt}
        badChoice == {k \in known : /\ schema[k].choices # {}
                                    /\ args[k].s \notin schema[k].choices}
        missing   == {k \in DOMAIN schema : schema[k].required /\ k \notin DOMAIN args}
    IN  [ err    |-> IF badType # {} THEN "invalid value"
                     ELSE IF badChoice # {} THEN "invalid choice"
                     ELSE IF missing # {} THEN "required"
                     ELSE "none",
          ns     |-> [k \in DOMAIN schema |->
                        IF k \in known THEN Convert(schema[k], args[k])
                        ELSE schema[k].default],
          extras |-> DOMAIN args \ DOMAIN schema ]

\* mutant of parse_args: unrecognised flags are tolerated
parse_args_lenient(schema, args) == parse_known_args(schema, args)

\* ArgumentParser.parse_args: parse_known_args, then any unrecognised flag
\* is an error.
parse_args(schema, args) ==
    LET r == parse_known_args(schema, args)
    IN  IF r.err = "none" /\ r.extras # {}
        THEN [r EXCEPT !.err = "unrecognized arguments"]
        ELSE r

\* mutant of set_defaults: the new default is dropped
set_defaults_dropped(schema, dest, value) == schema

\* ArgumentParser.set_defaults(dest=value)
set_defaults(schema, dest, value) ==
    [schema EXCEPT ![dest].default = value]

\* os.path.join(a, b, c) for the directory and experiment names of the model:
\* an absolute later component discards the components before it.
AbsoluteNames == {"/exp"}

os_path_join(a, b, c) ==
    IF b \in AbsoluteNames THEN b \o "/" \o c ELSE a \o "/" \o b \o "/" \o c

\* ------------------------------------------------------------------------
\* json.dumps / json.load on the values a Namespace holds
\* ------------------------------------------------------------------------
\* the JSON text of one Python value
json_dumps_value(v) ==
    CASE v.t = "NoneType" -> [j |-> "null",   s |-> "", n |-> 0]
      [] v.t = "bool"     -> [j |-> IF v.n = 1 THEN "true" ELSE "false", s |-> "", n |-> 0]
      [] v.t = "int"      -> [j |-> "number", s |-> "", n |-> v.n]
      [] v.t = "float"    -> [j |-> "number", s |-> "Infinity", n |-> 0]
      [] OTHER            -> [j |-> "string", s |-> v.s, n |-> 0]

\* json.dumps(d): a JSON object with one member per key of d
json_dumps(d) == [k \in DOMAIN d |-> json_dumps_value(d[k])]

\* mutant of json_load_value: every number is read as an int
json_load_value_int_only(x) ==
    CASE x.j = "null"   -> PyNone
      [] x.j = "true"   -> PyBool(TRUE)
      [] x.j = "false"  -> PyBool(FALSE)
      [] x.j = "number" -> PyInt(x.n)
      [] OTHER          -> PyStr(x.s)

\* the Python value json.load builds from one JSON value
json_load_value(x) ==
    CASE x.j = "null"   -> PyNone
      [] x.j = "true"   -> PyBool(TRUE)
      [] x.j = "false"  -> PyBool(FALSE)
      [] x.j = "number" -> IF x.s = "Infinity" THEN PyInf ELSE PyInt(x.n)
      [] OTHER          -> PyStr(x.s)

JNum(i) == [j |-> "number", s |-> "", n |-> i]

JStr(x) == [j |-> "string", s |-> x, n |-> 0]

\* ------------------------------------------------------------------------
\* The extension provider registries (modules models, datasets, optimizers)
\* ------------------------------------------------------------------------
OptimizerNames == {"adam", "sgd"}

\* the component names each family registers
Registered(family) ==
    CASE family = "models"   -> {"warp", "texture", "pix2pix"}
      [] family = "datasets" -> {"warp", "texture", "pix2pix"}
      [] OTHER               -> OptimizerNames

\* the flag a component declares for itself
OwnFlag(family, name) == family \o "." \o name

\* the flags the provider of (family, name) declares; reg says which
\* optimizer selectors the model providers declare and with which defaults
ProviderFlags(family, name, reg) ==
    LET own == [k \in {OwnFlag(family, name)} |-> Flag(PyNone, "str", {}, FALSE)]
        sel == [k \in (IF family = "models" THEN reg.declares ELSE {}) |->
                  Flag(PyStr(IF k = "optimizer_D" THEN reg.defD ELSE reg.defG),
                       "str", {}, FALSE)]
    IN  own @@ sel

\* import_source.get_options_modifier(name)(parser, is_train): the schema
\* with the provider's flags added; flags already declared are kept
options_modifier(family, name, schema, reg) ==
    schema @@ ProviderFlags(family, name, reg)

\* get_options_modifier(name) finds a provider
IsRegistered(family, name) ==
    name.t = "str" /\ name.s \in Registered(family)

\* becomes models, datasets, optimizers: arg.split("_")[0] + "s"
import_source(arg) ==
    CASE arg = "model"   -> "models"
      [] arg = "dataset" -> "datasets"
      [] OTHER           -> "optimizers"

\* ------------------------------------------------------------------------
\* State
\* ------------------------------------------------------------------------
VARIABLES
    argv,          \* sys.argv[1:]: given flag -> token
    is_train,      \* self.is_train, set by the constructor (of a subclass)
    registry,      \* what the model providers declare
    numDevices,    \* torch.cuda.device_count()
    files,         \* the file system: path -> content
    self_parser,   \* self._parser
    self_opt,      \* self.opt (NoOpt while the attribute does not exist)
    save_file,     \* self.save_file (NoPath while the attribute does not exist)
    device,        \* the device torch.cuda.set_device selected, -1 for none
    stdout,        \* what the last print() wrote
    pc,            \* position inside parse(): idle, modify, final, parsed
    parser,        \* gather_options' local parser
    opt,           \* gather_options' / parse's local opt
    modifiers,     \* gather_options' worklist
    idx,           \* position of the for loop in modifiers
    err,           \* the error the last call ended with, "none" without one
    lastCall,      \* the public call made last and its argument
    lookups,       \* get_options_modifier calls of the current parse()
    applied,       \* providers applied during the current parse()
    parses,        \* selector values of each partial parse of this parse()
    startOpt,      \* self.opt and self.save_file when this parse() began
    parseCalls,    \* parse() calls made so far
    loadCalls      \* load() calls made so far

env    == <<argv, is_train, registry, numDevices>>

locals == <<parser, opt, modifiers, idx>>

hist   == <<lookups, applied, parses, startOpt>>

vars   == <<argv, is_train, registry, numDevices, files, self_parser, self_opt,
            save_file, device, stdout, pc, parser, opt, modifiers, idx, err,
            lastCall, lookups, applied, parses, startOpt,
            parseCalls, loadCalls>>

\* self.opt before parse() has assigned it
NoOpt == [k \in {} |-> PyNone]

\* self.save_file before parse() has assigned it
NoPath == ""

Selectors == {"model", "dataset", "optimizer_D", "optimizer_G"}

\* the selector values of a namespace
SelView(ns) == [a \in Selectors \cap DOMAIN ns |-> ns[a]]

Call(op, arg) == [op |-> op, arg |-> arg]

\* ------------------------------------------------------------------------
\* Inputs
\* ------------------------------------------------------------------------
\* the command lines for one flag: the flag left out, or given one of toks
Given(flag, toks) ==
    {[k \in {} |-> Tok("")]} \cup {[k \in {flag} |-> t] : t \in toks}

ModelArgs   == Given("model", {Tok("warp"), Tok("texture"), Tok("pix2pix"),
                               Tok("doesnotexist")})

DatarootArgs == Given("dataroot", {Tok("data")})

DatasetArgs == Given("dataset", {Tok("texture"), Tok("nosuchdataset")})

OptimDArgs  == Given("optimizer_D", {Tok("sgd"), Tok("nosuchoptimizer")})

OptimGArgs  == Given("optimizer_G", {Tok("adam"), Tok("sgd"), Tok("nosuchoptimizer")})

UnknownArgs == Given("not_a_real_flag", {NumTok("1", 1)})

GpuArgs     == Given("gpu_id", {NumTok("-1", 0 - 1), NumTok("0", 0), NumTok("1", 1)})

NameArgs    == Given("name", {Tok("exp2")})

\* the model providers declare both optimizer selectors (with equal or with
\* different defaults), only optimizer_D, or neither
Registries ==
    {[declares |-> {"optimizer_D", "optimizer_G"}, defD |-> "adam", defG |-> g] :
        g \in OptimizerNames}
    \cup {[declares |-> d, defD |-> "adam", defG |-> "adam"] : d \in {{"optimizer_D"}, {}}}

\* documents a user may have placed on disk
UserDocs ==
    [ a |-> [batch_size |-> JNum(16)],
      b |-> [batch_size |-> JStr("sixteen"), config_file |-> JStr("elsewhere.json"),
             name |-> JStr("renamed")],
      c |-> [new_key |-> JNum(1)] ]

Object(doc) == [kind |-> "object", obj |-> doc]

NotObject(kind) == [kind |-> kind, obj |-> [k \in {} |-> JNum(0)]]

UserFiles ==
    [ f \in {"a.json", "b.json", "c.json", "garbage.json", "array.json"} |->
        CASE f = "a.json" -> Object(UserDocs.a)
          [] f = "b.json" -> Object(UserDocs.b)
          [] f = "c.json" -> Object(UserDocs.c)
          [] f = "garbage.json" -> NotObject("garbage")
          [] OTHER -> NotObject("array") ]

\* the state after BaseOptions.__init__
InitObject ==
    /\ self_parser = BaseSchema
    /\ self_opt = NoOpt
    /\ save_file = NoPath
    /\ device = 0 - 1
    /\ stdout = NoOpt
    /\ pc = "idle"
    /\ parser = NoOpt
    /\ opt = NoOpt
    /\ modifiers = <<>>
    /\ idx = 0
    /\ err = "none"
    /\ lastCall = Call("__init__", "")
    /\ lookups = <<>>
    /\ applied = <<>>
    /\ parses = <<>>
    /\ startOpt = [opt |-> NoOpt, save_file |-> NoPath]
    /\ parseCalls = 0
    /\ loadCalls = 0

\* ------------------------------------------------------------------------
\* parse() and gather_options()
\* ------------------------------------------------------------------------
\* an exception (or argparse's exit) leaves the call: the locals are gone
Raise(e) ==
    /\ pc' = "idle"
    /\ err' = e
    /\ parser' = NoOpt
    /\ opt' = NoOpt
    /\ modifiers' = <<>>
    /\ idx' = 0

\* mutant of InitialModifiers: the dataset is resolved before the model
InitialModifiersSwapped == <<"dataset", "model", "optimizer_D">>

\* modifiers = ["model", "dataset", "optimizer_D"]
InitialModifiers == <<"model", "dataset", "optimizer_D">>

\* name = getattr(opt, arg)
SelectorName(ns, arg) == ns[arg]

\* mutant of NextModifiers: optimizer_G is appended without comparing
NextModifiersAlways(arg, ns, mods) ==
    IF arg = "optimizer_D" THEN Append(mods, "optimizer_G") ELSE mods

\* mutant of NextModifiers: the optimizer_G iteration appends as well
NextModifiersRegrow(arg, ns, mods) ==
    IF arg \in {"optimizer_D", "optimizer_G"} /\ ns["optimizer_D"] # ns["optimizer_G"]
    THEN Append(mods, "optimizer_G")
    ELSE mods

\* mutant of NextModifiers: optimizer_G is never appended
NextModifiersNever(arg, ns, mods) == mods

\* if arg is "optimizer_D" and opt.optimizer_D != opt.optimizer_G:
\*     modifiers.append("optimizer_G")
\* (both "optimizer_D" literals are one constant of the function's code
\* object, so the identity test is the equality test)
NextModifiers(arg, ns, mods) ==
    IF arg = "optimizer_D" /\ ns["optimizer_D"] # ns["optimizer_G"]
    THEN Append(mods, "optimizer_G")
    ELSE mods

\* parse() calls gather_options(): the basic options are parsed leniently
\* and the default of dataset becomes the model
gather_options_basic ==
    /\ pc = "idle"
    /\ parseCalls < MaxParseCalls
    /\ parseCalls' = parseCalls + 1
    /\ lastCall' = Call("parse", "")
    /\ startOpt' = [opt |-> self_opt, save_file |-> save_file]
    /\ lookups' = <<>>
    /\ applied' = <<>>
    /\ LET r == parse_known_args(self_parser, argv)
       IN  IF r.err # "none"
           THEN /\ Raise(r.err)
                /\ parses' = <<>>
                /\ UNCHANGED self_parser
           ELSE /\ self_parser' = set_defaults(self_parser, "dataset", r.ns["model"])
                /\ parser' = self_parser'
                /\ opt' = r.ns
                /\ modifiers' = InitialModifiers
                /\ idx' = 1
                /\ pc' = "modify"
                /\ err' = "none"
                /\ parses' = <<SelView(r.ns)>>
    /\ UNCHANGED <<env, files, self_opt, save_file, device, stdout, loadCalls>>

\* one iteration of "for arg in modifiers"
gather_options_modify ==
    /\ pc = "modify"
    /\ idx <= Len(modifiers)
    /\ LET arg    == modifiers[idx]
           family == import_source(arg)
       IN  IF arg \notin DOMAIN opt
           THEN /\ Raise("AttributeError")
                /\ UNCHANGED <<lookups, applied, parses>>
           ELSE
           LET name == SelectorName(opt, arg)
           IN  /\ lookups' = Append(lookups, [arg |-> arg, family |-> family, name |-> name])
               /\ IF ~IsRegistered(family, name)
                  THEN /\ Raise("LookupError")
                       /\ UNCHANGED <<applied, parses>>
                  ELSE
                  LET extended == options_modifier(family, name.s, parser, registry)
                      r        == parse_known_args(extended, argv)
                  IN  /\ applied' = Append(applied, [family |-> family, name |-> name.s])
                      /\ IF r.err # "none"
                         THEN Raise(r.err) /\ UNCHANGED parses
                         ELSE /\ parses' = Append(parses, SelView(r.ns))
                              /\ IF arg = "optimizer_D" /\ "optimizer_G" \notin DOMAIN r.ns
                                 THEN Raise("AttributeError")
                                 ELSE /\ parser' = extended
                                      /\ opt' = r.ns
                                      /\ modifiers' = NextModifiers(arg, r.ns, modifiers)
                                      /\ idx' = idx + 1
                                      /\ UNCHANGED <<pc, err>>
    /\ UNCHANGED <<env, files, self_parser, self_opt, save_file, device, stdout,
                   lastCall, startOpt, parseCalls, loadCalls>>

\* the worklist is exhausted: the parser is kept and the strict parse runs
gather_options_final ==
    /\ pc = "modify"
    /\ idx > Len(modifiers)
    /\ self_parser' = parser
    /\ LET r == parse_args(parser, argv)
       IN  IF r.err # "none"
           THEN Raise(r.err)
           ELSE /\ opt' = r.ns
                /\ pc' = "parsed"
                /\ UNCHANGED <<parser, modifiers, idx, err>>
    /\ UNCHANGED <<env, files, self_opt, save_file, device, stdout, lastCall,
                   hist, parseCalls, loadCalls>>

\* self.is_train as a Python value
PyIsTrain ==
    CASE is_train = "True"  -> PyBool(TRUE)
      [] is_train = "False" -> PyBool(FALSE)
      [] OTHER              -> PyNone

\* opt.is_train = self.is_train
WithIsTrain(ns) ==
    [k \in DOMAIN ns \cup {"is_train"} |-> IF k = "is_train" THEN PyIsTrain ELSE ns[k]]

\* if opt.gpu_id > 0
SelectsDevice(ns) == ns["gpu_id"].n > 0

\* mutant of parse: self.opt and self.save_file are assigned before the
\* device is selected
parse_assigns_first ==
    /\ pc = "parsed"
    /\ LET o == WithIsTrain(opt)
       IN  /\ save_file' = os_path_join(o["checkpoints_dir"].s, o["name"].s, "args.json")
           /\ self_opt' = o
           /\ IF SelectsDevice(o) /\ o["gpu_id"].n >= numDevices
              THEN /\ Raise("RuntimeError")
                   /\ UNCHANGED device
              ELSE /\ device' = IF SelectsDevice(o) THEN o["gpu_id"].n ELSE device
                   /\ pc' = "idle"
                   /\ err' = "none"
                   /\ parser' = NoOpt
                   /\ opt' = NoOpt
                   /\ modifiers' = <<>>
                   /\ idx' = 0
    /\ UNCHANGED <<env, files, self_parser, stdout, lastCall, hist, parseCalls, loadCalls>>

\* the rest of parse(): is_train, the device, the save path, self.opt
parse ==
    /\ pc = "parsed"
    /\ LET o == WithIsTrain(opt)
       IN  IF SelectsDevice(o) /\ o["gpu_id"].n >= numDevices
           THEN /\ Raise("RuntimeError")
                /\ UNCHANGED <<device, save_file, self_opt>>
           ELSE /\ device' = IF SelectsDevice(o) THEN o["gpu_id"].n ELSE device
                /\ save_file' = os_path_join(o["checkpoints_dir"].s, o["name"].s, "args.json")
                /\ self_opt' = o
                /\ pc' = "idle"
                /\ err' = "none"
                /\ parser' = NoOpt
                /\ opt' = NoOpt
                /\ modifiers' = <<>>
                /\ idx' = 0
    /\ UNCHANGED <<env, files, self_parser, stdout, lastCall, hist, parseCalls, loadCalls>>

\* ------------------------------------------------------------------------
\* print(), save(), load()
\* ------------------------------------------------------------------------
print ==
    /\ pc = "idle"
    /\ lastCall' = Call("print", "")
    /\ IF self_opt = NoOpt
       THEN err' = "AttributeError" /\ UNCHANGED stdout
       ELSE err' = "none" /\ stdout' = self_opt
    /\ UNCHANGED <<env, files, self_parser, self_opt, save_file, device, pc, locals,
                   hist, parseCalls, loadCalls>>

\* mutant of WriteFile: the members are added to the document already there
WriteFile_append(fs, path, doc) ==
    [p \in DOMAIN fs \cup {path} |->
        IF p # path THEN fs[p]
        ELSE IF path \in DOMAIN fs /\ fs[path].kind = "object"
             THEN Object(doc @@ fs[path].obj)
             ELSE Object(doc)]

\* open(self.save_file, "w") and one write: the document is replaced
WriteFile(fs, path, doc) ==
    [p \in DOMAIN fs \cup {path} |-> IF p = path THEN Object(doc) ELSE fs[p]]

\* mutant of save: the configuration records the path it was saved to
save_stamps_config ==
    /\ pc = "idle"
    /\ lastCall' = Call("save", "")
    /\ IF self_opt = NoOpt
       THEN err' = "AttributeError" /\ UNCHANGED <<files, self_opt>>
       ELSE /\ err' = "none"
            /\ files' = WriteFile(files, save_file, json_dumps(self_opt))
            /\ self_opt' = [self_opt EXCEPT !["config_file"] = PyStr(save_file)]
    /\ UNCHANGED <<env, self_parser, save_file, device, stdout, pc, locals,
                   hist, parseCalls, loadCalls>>

save ==
    /\ pc = "idle"
    /\ lastCall' = Call("save", "")
    /\ IF self_opt = NoOpt
       THEN err' = "AttributeError" /\ UNCHANGED files
       ELSE err' = "none" /\ files' = WriteFile(files, save_file, json_dumps(self_opt))
    /\ UNCHANGED <<env, self_parser, self_opt, save_file, device, stdout, pc, locals,
                   hist, parseCalls, loadCalls>>

\* mutant of Overlay: config_file is stamped before the document is applied
Overlay_stamp_first(o, doc, json_file) ==
    [k \in DOMAIN o \cup DOMAIN doc \cup {"config_file"} |->
        IF k \in DOMAIN doc THEN json_load_value(doc[k])
        ELSE IF k = "config_file" THEN PyStr(json_file)
        ELSE o[k]]

\* for k, v in args.items(): setattr(self.opt, k, v)
\* self.opt.config_file = json_file
Overlay(o, doc, json_file) ==
    [k \in DOMAIN o \cup DOMAIN doc \cup {"config_file"} |->
        IF k = "config_file" THEN PyStr(json_file)
        ELSE IF k \in DOMAIN doc THEN json_load_value(doc[k])
        ELSE o[k]]

\* mutant of LoadError: a JSON document that is no object counts as empty
LoadError_lenient(fs, o, json_file) ==
    IF json_file \notin DOMAIN fs THEN "FileNotFoundError"
    ELSE IF fs[json_file].kind = "garbage" THEN "JSONDecodeError"
    ELSE IF o = NoOpt THEN "AttributeError"
    ELSE "none"

\* the error load(json_file) ends with, "none" when it succeeds
LoadError(fs, o, json_file) ==
    IF json_file \notin DOMAIN fs THEN "FileNotFoundError"
    ELSE IF fs[json_file].kind = "garbage" THEN "JSONDecodeError"
    ELSE IF fs[json_file].kind # "object" THEN "AttributeError"
    ELSE IF o = NoOpt THEN "AttributeError"
    ELSE "none"

\* mutant of load: the save path follows the loaded name
load_restamps(json_file) ==
    /\ pc = "idle"
    /\ loadCalls < MaxLoadCalls
    /\ loadCalls' = loadCalls + 1
    /\ lastCall' = Call("load", json_file)
    /\ err' = LoadError(files, self_opt, json_file)
    /\ IF err' = "none"
       THEN /\ self_opt' = Overlay(self_opt, files[json_file].obj, json_file)
            /\ save_file' = os_path_join(self_opt'["checkpoints_dir"].s,
                                         self_opt'["name"].s, "args.json")
       ELSE UNCHANGED <<self_opt, save_file>>
    /\ UNCHANGED <<env, files, self_parser, device, stdout, pc, locals,
                   hist, parseCalls>>

load(json_file) ==
    /\ pc = "idle"
    /\ loadCalls < MaxLoadCalls
    /\ loadCalls' = loadCalls + 1
    /\ lastCall' = Call("load", json_file)
    /\ err' = LoadError(files, self_opt, json_file)
    /\ IF err' = "none"
       THEN self_opt' = Overlay(self_opt, files[json_file].obj, json_file)
       ELSE UNCHANGED self_opt
    /\ UNCHANGED <<env, files, self_parser, save_file, device, stdout, pc, locals,
                   hist, parseCalls>>

LoadPaths == DOMAIN files \cup {"missing.json"}

\* ------------------------------------------------------------------------
\* Specifications
\* ------------------------------------------------------------------------
\* every command line of the input sets, no configuration documents
InitGather ==
    /\ argv \in {m @@ r @@ s @@ d @@ g @@ u @@ c :
                    m \in ModelArgs, r \in DatarootArgs, s \in DatasetArgs,
                    d \in OptimDArgs, g \in OptimGArgs, u \in UnknownArgs,
                    c \in Given("gpu_id", {NumTok("1", 1)})}
    /\ is_train \in {"True", "False"}
    /\ registry \in Registries
    /\ numDevices \in {1, 2}
    /\ files = [p \in {} |-> NotObject("garbage")]
    /\ InitObject

NextGather ==
    \/ gather_options_basic
    \/ gather_options_modify
    \/ gather_options_final
    \/ parse

SpecGather == InitGather /\ [][NextGather]_vars

\* command lines that differ in model, name, device and an unknown flag;
\* user documents on disk
Init ==
    /\ argv \in {m @@ r @@ n @@ g @@ u :
                    m \in {[model |-> Tok("warp")]}, r \in {[dataroot |-> Tok("data")]},
                    n \in NameArgs, g \in GpuArgs, u \in UnknownArgs}
    /\ is_train \in {"None", "True"}
    /\ registry \in {[declares |-> {"optimizer_D", "optimizer_G"},
                      defD |-> "adam", defG |-> "sgd"]}
    /\ numDevices \in {1, 2}
    /\ files = UserFiles
    /\ InitObject

Next ==
    \/ gather_options_basic
    \/ gather_options_modify
    \/ gather_options_final
    \/ parse
    \/ print
    \/ save
    \/ \E f \in LoadPaths : load(f)

Spec == Init /\ [][Next]_vars

\* ------------------------------------------------------------------------
\* Properties of gather_options (checked under SpecGather)
\* ------------------------------------------------------------------------
ModelEnum == {"warp", "texture", "pix2pix"}

\* the dataset the command line asks for: --dataset if given, else the model
ExpectedDataset ==
    IF "dataset" \in DOMAIN argv THEN PyStr(argv["dataset"].s) ELSE PyStr(argv["model"].s)

\* C1: whenever the dataset provider is looked up, and in the configuration
\* parse() returns, dataset is the model's value if --dataset was not given
\* and the given value otherwise.
C1_DatasetDefaultsToModel ==
    /\ \A i \in DOMAIN lookups :
          lookups[i].arg = "dataset" => lookups[i].name = ExpectedDataset
    /\ pc = "parsed" => opt["dataset"] = ExpectedDataset
    /\ self_opt # NoOpt => self_opt["dataset"] = ExpectedDataset

\* C1 witness: parse() returned for --model pix2pix without --dataset, after
\* the dataset provider of pix2pix was looked up.
C1_Witness ==
    /\ "dataset" \notin DOMAIN argv
    /\ "model" \in DOMAIN argv
    /\ argv["model"].s = "pix2pix"
    /\ self_opt # NoOpt
    /\ self_opt["dataset"] = PyStr("pix2pix")
    /\ Len(lookups) >= 2
    /\ lookups[2] = [arg |-> "dataset", family |-> "datasets", name |-> PyStr("pix2pix")]

\* the partial parse that follows the optimizer_D extension is the fourth
AfterOptimizerD == Len(parses) >= 4 /\ "optimizer_G" \in DOMAIN parses[4]

OptimizersEqual == AfterOptimizerD /\ parses[4]["optimizer_D"] = parses[4]["optimizer_G"]

OptimizersDiffer == AfterOptimizerD /\ parses[4]["optimizer_D"] # parses[4]["optimizer_G"]

\* how many entries of a log satisfy family = "optimizers"
OptimizerCount(log) == Cardinality({i \in DOMAIN log : log[i].family = "optimizers"})

\* C2: once the parse after the optimizer_D extension resolves equal
\* optimizer_D and optimizer_G, optimizer_G is not on the worklist and the
\* optimizers registry has been queried and applied exactly once.
C2_EqualOptimizersExtendOnce ==
    OptimizersEqual =>
        /\ \A i \in DOMAIN modifiers : modifiers[i] # "optimizer_G"
        /\ \A i \in DOMAIN lookups : lookups[i].arg # "optimizer_G"
        /\ OptimizerCount(lookups) = 1
        /\ OptimizerCount(applied) = 1

\* C2 witness: parse() returned, --optimizer_G was not given and its default
\* equals optimizer_D.
C2_Witness ==
    /\ OptimizersEqual
    /\ "optimizer_G" \notin DOMAIN argv
    /\ self_opt # NoOpt
    /\ pc = "idle"
    /\ Len(lookups) = 3

\* the for loop has run out of worklist entries
WorklistExhausted == (pc = "modify" /\ idx > Len(modifiers)) \/ pc = "parsed"

\* C3: once the parse after the optimizer_D extension resolves different
\* optimizer_D and optimizer_G, optimizer_G is on the worklist exactly once,
\* behind optimizer_D; neither provider is looked up or applied twice; and
\* when the worklist is exhausted each has been looked up and applied once,
\* optimizer_D first.
C3_DifferentOptimizersExtendTwice ==
    OptimizersDiffer =>
        /\ pc = "modify" =>
              modifiers = <<"model", "dataset", "optimizer_D", "optimizer_G">>
        /\ Len(lookups) \in {3, 4}
        /\ lookups[3].arg = "optimizer_D"
        /\ applied[3] = [family |-> "optimizers", name |-> parses[4]["optimizer_D"].s]
        /\ Len(lookups) = 4 => lookups[4].arg = "optimizer_G"
        /\ Len(applied) <= Len(lookups)
        /\ WorklistExhausted =>
              /\ Len(lookups) = 4
              /\ Len(applied) = 4
              /\ lookups[4].name = parses[4]["optimizer_G"]
              /\ applied[4] = [family |-> "optimizers", name |-> parses[4]["optimizer_G"].s]

\* C3 witness: the worklist is exhausted after both optimizer providers ran,
\* optimizer_G being the default that differs from the given optimizer_D.
C3_Witness ==
    /\ OptimizersDiffer
    /\ pc = "parsed"
    /\ Len(applied) = 4
    /\ applied[3].name # applied[4].name

\* the order in which gather_options resolves the selectors
SelectorOrder == <<"model", "dataset", "optimizer_D", "optimizer_G">>

\* the selector value the command line resolves to under a schema
Resolved(schema, arg) == parse_known_args(schema, argv).ns[arg]

\* the schema gather_options ends with, as a function of the command line
\* and the registry alone
Schema0 == set_defaults(BaseSchema, "dataset", PyStr(argv["model"].s))

Schema1 == options_modifier("models", Resolved(Schema0, "model").s, Schema0, registry)

Schema2 == options_modifier("datasets", Resolved(Schema1, "dataset").s, Schema1, registry)

Schema3 == options_modifier("optimizers", Resolved(Schema2, "optimizer_D").s, Schema2, registry)

TerminalSchema ==
    IF Resolved(Schema3, "optimizer_D") # Resolved(Schema3, "optimizer_G")
    THEN options_modifier("optimizers", Resolved(Schema3, "optimizer_G").s, Schema3, registry)
    ELSE Schema3

\* C4: the providers are looked up in the order model, dataset, optimizer_D
\* and then optimizer_G only if the optimizers differ, each under the value
\* of the partial parse taken just before the lookup; and the schema every
\* completed gather_options leaves (on the first and on a repeated run) is
\* the one the command line and the registry determine.
C4_FixedOrderDeterministic ==
    /\ Len(lookups) <= 4
    /\ Len(parses) >= Len(lookups)
    /\ Len(parses) <= Len(lookups) + 1
    /\ \A i \in DOMAIN lookups :
          /\ lookups[i].arg = SelectorOrder[i]
          /\ lookups[i].family = import_source(SelectorOrder[i])
          /\ lookups[i].name = parses[i][SelectorOrder[i]]
    /\ Len(lookups) = 4 => OptimizersDiffer
    /\ (pc = "parsed" \/ self_opt # NoOpt) => self_parser = TerminalSchema

\* C4 witness: a second parse() has resolved all four selectors and left
\* the schema of the first.
C4_Witness ==
    /\ parseCalls = 2
    /\ pc = "parsed"
    /\ Len(lookups) = 4
    /\ self_opt # NoOpt
    /\ self_parser = TerminalSchema

HasUnknownFlag == "not_a_real_flag" \in DOMAIN argv

\* C5: with a flag no schema declares on the command line, no partial parse
\* fails for it: the "unrecognized arguments" error arises only once the
\* worklist is exhausted and every provider on it has been applied; the
\* strict parse never accepts the command line, so parse() never returns a
\* configuration.
C5_UnknownFlagRejectedOnlyAtEnd ==
    HasUnknownFlag =>
        /\ pc # "parsed"
        /\ self_opt = NoOpt
        /\ save_file = NoPath
        /\ err = "unrecognized arguments" =>
              /\ pc = "idle"
              /\ Len(applied) >= 3
              /\ Len(applied) = Len(lookups)
              /\ Len(parses) = Len(applied) + 1

\* C5 witness: the strict parse rejected the flag after four providers and
\* five partial parses.
C5_Witness ==
    /\ HasUnknownFlag
    /\ pc = "idle"
    /\ err = "unrecognized arguments"
    /\ Len(applied) = 4
    /\ Len(parses) = 5

\* C6: with --model outside the enum, parse() ends in the first partial
\* parse with an invalid-choice error: no provider has been looked up or
\* applied and the schema is the base schema.
C6_BadModelFailsBeforeExtension ==
    ("model" \in DOMAIN argv /\ argv["model"].s \notin ModelEnum) =>
        /\ lookups = <<>>
        /\ applied = <<>>
        /\ parses = <<>>
        /\ self_parser = BaseSchema
        /\ pc = "idle"
        /\ self_opt = NoOpt
        /\ parseCalls > 0 => err = "invalid choice"

\* C6 witness: parse() was called with --model doesnotexist and failed.
C6_Witness ==
    /\ "model" \in DOMAIN argv
    /\ argv["model"].s = "doesnotexist"
    /\ parseCalls > 0
    /\ err = "invalid choice"
    /\ lookups = <<>>

\* C7: while a parse() call is running, and after it has failed, self.opt
\* and self.save_file are what they were when the call began.
C7_FailedParseExposesNothing ==
    (lastCall.op = "parse" /\ (pc # "idle" \/ err # "none")) =>
        /\ self_opt = startOpt.opt
        /\ save_file = startOpt.save_file

\* C7 witness: device selection, the last step that can fail, has failed
\* and nothing is exposed.
C7_Witness ==
    /\ lastCall.op = "parse"
    /\ pc = "idle"
    /\ err = "RuntimeError"
    /\ self_opt = NoOpt
    /\ save_file = NoPath

\* ------------------------------------------------------------------------
\* Properties of load, save and the lifecycle (checked under Spec)
\* ------------------------------------------------------------------------
\* this step is a load() call
IsLoadStep == loadCalls' = loadCalls + 1

\* C8: a load(path) that succeeds was made on a parsed configuration; after
\* it every key of the document holds the document's value, every other key
\* but config_file holds its previous value, and config_file is path.
C8_LoadOverlaysDocument ==
    [][ (IsLoadStep /\ err' = "none") =>
          LET path == lastCall'.arg
              doc  == files[path].obj
          IN  /\ self_opt # NoOpt
              /\ \A k \in DOMAIN doc \ {"config_file"} :
                    k \in DOMAIN self_opt' /\ self_opt'[k] = json_load_value(doc[k])
              /\ \A k \in DOMAIN self_opt \ (DOMAIN doc \cup {"config_file"}) :
                    k \in DOMAIN self_opt' /\ self_opt'[k] = self_opt[k]
              /\ self_opt'["config_file"] = PyStr(path) ]_vars

\* C8 witness: b.json, which names another config_file and holds a string
\* for batch_size, has been loaded over the int default.
C8_Witness ==
    /\ lastCall = Call("load", "b.json")
    /\ err = "none"
    /\ self_opt # NoOpt
    /\ self_opt["batch_size"] = PyStr("sixteen")
    /\ self_opt["config_file"] = PyStr("b.json")
    /\ self_opt["num_workers"] = PyInt(4)

\* C9: a load of self.save_file right after a successful save() succeeds,
\* leaves the key set as it was at the save and leaves every value but that
\* of config_file as it was.
C9_SaveLoadRoundTrip ==
    [][ (lastCall.op = "save" /\ err = "none" /\ IsLoadStep /\ lastCall'.arg = save_file) =>
          /\ err' = "none"
          /\ DOMAIN self_opt' = DOMAIN self_opt
          /\ \A k \in DOMAIN self_opt \ {"config_file"} : self_opt'[k] = self_opt[k] ]_vars

\* C9 witness: a configuration holding a key injected by c.json was saved
\* and the saved document loaded back.
C9_Witness ==
    /\ save_file # NoPath
    /\ lastCall = Call("load", save_file)
    /\ err = "none"
    /\ "new_key" \in DOMAIN self_opt
    /\ DOMAIN files[save_file].obj = DOMAIN self_opt
    /\ self_opt["max_dataset_size"] = PyInf

\* C10: a load changes the configuration only once a parse() has succeeded,
\* and once a parse() has succeeded (FINAL_PARSED or LOADED) no step enters
\* the worklist loop of gather_options (EXTENDING) again.
C10_NoReturnToExtending ==
    [][ /\ (IsLoadStep /\ self_opt' # self_opt) => self_opt # NoOpt
        /\ self_opt # NoOpt => pc' # "modify" ]_vars

\* ------------------------------------------------------------------------
\* --config_file on the command line (checked under SpecConfigFile)
\* ------------------------------------------------------------------------
ConfigFileArgs == Given("config_file", {Tok("a.json"), Tok("b.json")})

\* command lines that name a configuration document, or none
InitConfigFile ==
    /\ argv \in {m @@ r @@ c :
                    m \in {[model |-> Tok("warp")]}, r \in {[dataroot |-> Tok("data")]},
                    c \in ConfigFileArgs}
    /\ is_train \in {"None", "True"}
    /\ registry \in {[declares |-> {"optimizer_D", "optimizer_G"},
                      defD |-> "adam", defG |-> "sgd"]}
    /\ numDevices = 1
    /\ files = UserFiles
    /\ InitObject

SpecConfigFile == InitConfigFile /\ [][Next]_vars

\* parse() has just returned a configuration
ParseReturned ==
    lastCall.op = "parse" /\ pc = "idle" /\ err = "none" /\ self_opt # NoOpt

\* C11: when --config_file names a document, the configuration parse()
\* returns holds the document's value under every key of the document.
C11_ParseSourcesConfigFile ==
    (ParseReturned /\ "config_file" \in DOMAIN argv) =>
        LET doc == files[argv["config_file"].s].obj
        IN  \A k \in DOMAIN doc \ {"config_file"} :
               k \in DOMAIN self_opt /\ self_opt[k] = json_load_value(doc[k])

\* ------------------------------------------------------------------------
\* Termination of the worklist (checked under SpecGather)
\* ------------------------------------------------------------------------
\* C12: the worklist is [model, dataset, optimizer_D], or that followed by
\* one optimizer_G which is there only once the optimizer_D iteration is
\* over and found different optimizers; the loop index only runs from 1 to
\* one past the worklist, one provider lookup per iteration, so at most
\* four selectors are resolved.
C12_WorklistBounded ==
    /\ Len(lookups) <= 4
    /\ Len(applied) <= Len(lookups)
    /\ pc = "modify" =>
          /\ \/ modifiers = InitialModifiers
             \/ modifiers = Append(InitialModifiers, "optimizer_G")
          /\ idx \in 1..(Len(modifiers) + 1)
          /\ Len(lookups) = idx - 1
          /\ Len(modifiers) = 4 => (idx >= 4 /\ OptimizersDiffer)
    /\ pc = "parsed" => Len(modifiers) \in {3, 4} /\ idx = Len(modifiers) + 1

\* C12 witness: the optimizer_G iteration is over, the worklist still has
\* four entries and the loop is at its end.
C12_Witness ==
    /\ pc = "modify"
    /\ modifiers = <<"model", "dataset", "optimizer_D", "optimizer_G">>
    /\ idx = 5
    /\ Len(applied) = 4

\* ------------------------------------------------------------------------
\* Frame of print, save and load (checked under Spec)
\* ------------------------------------------------------------------------
\* this step is a print() or a save() call
IsPrintOrSaveStep == pc = "idle" /\ lastCall'.op \in {"print", "save"}

\* this step is a save() call that succeeds
IsSaveStep == pc = "idle" /\ lastCall'.op = "save" /\ err' = "none"

\* C13: once parse() has returned a configuration, print() and save() change
\* no key or value of it, nor the schema, nor the save path, and load()
\* does not change the schema.
C13_PrintSaveLoadFrame ==
    [][ self_opt # NoOpt =>
          /\ IsPrintOrSaveStep =>
                /\ self_opt' = self_opt
                /\ self_parser' = self_parser
                /\ save_file' = save_file
          /\ IsLoadStep => self_parser' = self_parser ]_vars

\* C13 witness: a configuration changed by load("a.json") has been printed
\* and then saved, and is still what was printed and what was saved.
C13_Witness ==
    /\ self_opt # NoOpt
    /\ lastCall.op = "save"
    /\ err = "none"
    /\ self_opt["config_file"] = PyStr("a.json")
    /\ stdout = self_opt
    /\ save_file \in DOMAIN files
    /\ files[save_file].obj = json_dumps(self_opt)

\* C14: a save() that succeeds leaves at self.save_file a document whose
\* keys are exactly the keys the configuration has then, is_train among
\* them, whatever the document held before, and leaves every other file as
\* it was; a save() right after a save() changes nothing.
C14_SaveReplacesDocument ==
    [][ IsSaveStep =>
          /\ DOMAIN files' = DOMAIN files \cup {save_file}
          /\ files'[save_file].kind = "object"
          /\ DOMAIN files'[save_file].obj = DOMAIN self_opt
          /\ "is_train" \in DOMAIN files'[save_file].obj
          /\ \A p \in DOMAIN files \ {save_file} : files'[p] = files[p]
          /\ (lastCall.op = "save" /\ err = "none") => files' = files ]_vars

\* C14 witness: after a load and a second parse(), a save has written a
\* document without the key a loaded document had injected earlier.
C14_Witness ==
    /\ lastCall.op = "save"
    /\ err = "none"
    /\ parseCalls = 2
    /\ loadCalls >= 1
    /\ self_opt # NoOpt
    /\ "new_key" \notin DOMAIN self_opt
    /\ DOMAIN files[save_file].obj = DOMAIN self_opt
    /\ "is_train" \in DOMAIN files[save_file].obj

\* the keys the configuration has when parse() returns it
ParsedKeys == DOMAIN self_parser \cup {"is_train"}

\* C15: the keys of the configuration are always those it had when parse()
\* returned it: load adds no key.
C15_LoadRejectsUnknownKeys ==
    self_opt # NoOpt => DOMAIN self_opt = ParsedKeys

\* C16: a load() of a file that holds no JSON object (text that is no JSON,
\* or a JSON array) ends with an error and leaves the configuration, its
\* config_file included, as it was.
C16_MalformedDocumentRejected ==
    [][ (IsLoadStep /\ lastCall'.arg \in DOMAIN files
           /\ files[lastCall'.arg].kind # "object") =>
          /\ err' # "none"
          /\ self_opt' = self_opt ]_vars

\* C16 witness: load("array.json") has failed on a parsed configuration
\* whose config_file is still unset.
C16_Witness ==
    /\ lastCall = Call("load", "array.json")
    /\ err = "AttributeError"
    /\ self_opt # NoOpt
    /\ self_opt["config_file"] = PyNone
    /\ self_opt["batch_size"] = PyInt(4)

\* ------------------------------------------------------------------------
\* Device selection and the save path (checked under Spec)
\* ------------------------------------------------------------------------
\* the gpu_id the command line resolves to
ResolvedGpu ==
    IF "gpu_id" \in DOMAIN argv THEN argv["gpu_id"].n ELSE BaseSchema["gpu_id"].default.n

\* C17: when parse() has returned, the selected device is gpu_id if gpu_id
\* is 0 or more, and no device has been selected if gpu_id is negative.
C17_DeviceSelectedForNonNegative ==
    ParseReturned =>
        IF ResolvedGpu >= 0 THEN device = ResolvedGpu ELSE device = 0 - 1

\* the experiment name the command line resolves to
ResolvedName ==
    IF "name" \in DOMAIN argv THEN argv["name"].s ELSE BaseSchema["name"].default.s

\* os.path.join of the checkpoints_dir and name resolved at parse time
ParseTimePath ==
    os_path_join(BaseSchema["checkpoints_dir"].default.s, ResolvedName, "args.json")

\* C18: once stamped, self.save_file is the path joined from the
\* checkpoints_dir and name parse() resolved, whatever load() has written
\* over name since; and that path is the only file save() ever writes.
C18_SavePathFixedAtParse ==
    /\ self_opt # NoOpt => save_file = ParseTimePath
    /\ self_opt = NoOpt => save_file = NoPath
    /\ DOMAIN files \subseteq DOMAIN UserFiles \cup {ParseTimePath}

\* C18 witness: load("b.json") renamed the experiment and a save() then
\* wrote the renamed configuration to the parse-time path.
C18_Witness ==
    /\ self_opt # NoOpt
    /\ self_opt["name"] = PyStr("renamed")
    /\ lastCall.op = "save"
    /\ err = "none"
    /\ save_file = ParseTimePath
    /\ save_file \in DOMAIN files
    /\ files[save_file].obj["name"] = JStr("renamed")

====
